---- MODULE Spec2Model ----
(***************************************************************************)
(* A model of the CR2W reader of cp2077_extractor:                         *)
(*   cr2w/io.py         read_c_name, read_tables, read_file_info           *)
(*   cr2w/datatypes.py  get_chunk_variables, parse_chunk, instantiate_type,*)
(*                      handle, the Chunk dataclasses and their binding    *)
(*   utils.py           to_snake_case                                      *)
(*                                                                         *)
(* Bytes are integers 0..255, a bytes object is a sequence of them, a name *)
(* is a string.  An io.BytesIO / file object is a byte sequence plus the   *)
(* position fp.tell().  A raised Python exception is the record            *)
(* [ok |-> FALSE, err |-> <exception class>].                              *)
(***************************************************************************)
EXTENDS Integers, Sequences, FiniteSets, TLC

(***************************************************************************)
(* Bounds of the model.                                                    *)
(***************************************************************************)
\* the largest number of property records in a generated property stream
MaxRecs == 2
\* the largest number of stray bytes appended to a property stream
MaxStray == 3
\* the largest number of bytes cut off the end of a property stream
MaxCut == 5
\* the largest number of rows of a generated export (chunks) table
NumExports == 2
\* the largest number of records in a fixed table of a generated file
MaxItems == 2
\* the largest number of rows of the export table given to read_chunk
MaxChunks == 2
\* the stream position at which the chunk data region begins
ChunkStart == 2
\* the number of reads at the end of the file after which the model leaves
\* the string loop of read_file_info alone
MaxEmptyReads == 3
\* the longest string given to to_snake_case
MaxNameLen == 4
\* the call depth at which the interpreter raises RecursionError
\* (sys.getrecursionlimit()), in frames of the model
RecursionLimit == 12

(***************************************************************************)
(* Python's bytes, io.BytesIO and struct.                                  *)
(***************************************************************************)
Min(a, b) == IF a < b THEN a ELSE b

\* fp.read(n) at position pos: at most n bytes, fewer at the end of the
\* data, and everything that is left when n is negative; never an error
Read(data, pos, n) ==
    IF n < 0 THEN SubSeq(data, pos + 1, Len(data))
    ELSE SubSeq(data, pos + 1, Min(pos + n, Len(data)))

\* int.from_bytes(b, "little") of a short byte string
RECURSIVE FromBytesLE(_)
FromBytesLE(b) ==
    IF b = << >> THEN 0 ELSE b[1] + 256 * FromBytesLE(Tail(b))

\* struct.unpack("<H", b)[0]: struct.error unless b holds exactly 2 bytes
UnpackH(b) ==
    IF Len(b) # 2 THEN [ok |-> FALSE, err |-> "struct.error"]
    ELSE [ok |-> TRUE, val |-> FromBytesLE(b)]

\* struct.unpack("<I", b)[0]: struct.error unless b holds exactly 4 bytes
UnpackI(b) ==
    IF Len(b) # 4 THEN [ok |-> FALSE, err |-> "struct.error"]
    ELSE [ok |-> TRUE, val |-> FromBytesLE(b)]

\* struct.pack("<H", v) and struct.pack("<I", v), to build inputs
PackH(v) == << v % 256, (v \div 256) % 256 >>

PackI(v) == << v % 256, (v \div 256) % 256, (v \div 65536) % 256, (v \div 16777216) % 256 >>

\* all sequences over S of length at most n
SeqsUpTo(S, n) == UNION { [1..k -> S] : k \in 0..n }

RECURSIVE Concat(_)
Concat(ss) == IF ss = << >> THEN << >> ELSE Head(ss) \o Concat(Tail(ss))

(***************************************************************************)
(* binascii.crc32.  A 32-bit value is the pair << high 16 bits, low 16     *)
(* bits >>, so that no intermediate value exceeds 32 bits.                 *)
(***************************************************************************)
RECURSIVE Xor(_, _)
Xor(a, b) ==
    IF a = 0 THEN b
    ELSE IF b = 0 THEN a
    ELSE ((a + b) % 2) + 2 * Xor(a \div 2, b \div 2)

Xor32(x, y) == << Xor(x[1], y[1]), Xor(x[2], y[2]) >>

Shr1(x) == << x[1] \div 2, (x[2] \div 2) + (x[1] % 2) * 32768 >>

Shr8(x) == << x[1] \div 256, (x[2] \div 256) + (x[1] % 256) * 256 >>

\* the reflected CRC-32 polynomial 0xEDB88320
RECURSIVE CrcEntry(_, _)
CrcEntry(c, k) ==
    IF k = 0 THEN c
    ELSE CrcEntry(IF c[2] % 2 = 1 THEN Xor32(Shr1(c), << 60856, 33568 >>) ELSE Shr1(c), k - 1)

CrcTable == [n \in 0..255 |-> CrcEntry(<< 0, n >>, 8)]

\* the register after the bytes data[lo..hi], the range taken in halves
RECURSIVE CrcUpdate(_, _, _, _)
CrcUpdate(c, data, lo, hi) ==
    IF lo > hi THEN c
    ELSE IF lo = hi THEN Xor32(CrcTable[Xor(c[2] % 256, data[lo])], Shr8(c))
    ELSE LET mid == (lo + hi) \div 2
             left == CrcUpdate(c, data, lo, mid)
         IN  IF left[1] >= 0 THEN CrcUpdate(left, data, mid + 1, hi) ELSE left

\* binascii.crc32(data)
crc32(data) == Xor32(CrcUpdate(<< 65535, 65535 >>, data, 1, Len(data)), << 65535, 65535 >>)

\* the "I" field b of struct.unpack as a 32-bit value, and struct.pack of one
U32Pair(b) == << b[3] + 256 * b[4], b[1] + 256 * b[2] >>

PackPair(x) == << x[2] % 256, x[2] \div 256, x[1] % 256, x[1] \div 256 >>

(***************************************************************************)
(* io.read_c_name                                                          *)
(***************************************************************************)
\* read_c_name(fp, names_list) with fp at position pos: the name and the new
\* position, or the exception raised
read_c_name(data, pos, names) ==
    LET raw == Read(data, pos, 2)
        u == UnpackH(raw)
    IN  IF ~u.ok THEN [ok |-> FALSE, err |-> "struct.error"]
        ELSE IF ~(u.val < Len(names)) THEN [ok |-> FALSE, err |-> "AssertionError"]
        ELSE IF names[u.val + 1] = "" THEN [ok |-> FALSE, err |-> "AssertionError"]
        ELSE IF names[u.val + 1] = "None" THEN [ok |-> FALSE, err |-> "AssertionError"]
        ELSE [ok |-> TRUE, name |-> names[u.val + 1], pos |-> pos + 2]

(***************************************************************************)
(* datatypes.get_chunk_variables (cr2w/utils.py holds the same function)   *)
(***************************************************************************)
\* the try block with the length field taken as the length of the value
ReadVariable_LengthExcludesItself(data, pos, names) ==
    LET n == read_c_name(data, pos, names) IN
    IF ~n.ok THEN [ok |-> FALSE, err |-> n.err] ELSE
    LET t == read_c_name(data, n.pos, names) IN
    IF ~t.ok THEN [ok |-> FALSE, err |-> t.err] ELSE
    LET l == UnpackI(Read(data, t.pos, 4)) IN
    IF ~l.ok THEN [ok |-> FALSE, err |-> l.err] ELSE
    LET value == Read(data, t.pos + 4, l.val)
    IN  [ok |-> TRUE,
         triple |-> << n.name, t.name, value >>,
         declared |-> l.val,
         pos |-> t.pos + 4 + Len(value)]

\* the body of the try block of one loop iteration, with the buffer at
\* position pos: the triple appended and the new position, or the exception
\* that the bare except turns into a break
ReadVariable(data, pos, names) ==
    LET n == read_c_name(data, pos, names) IN
    IF ~n.ok THEN [ok |-> FALSE, err |-> n.err] ELSE
    LET t == read_c_name(data, n.pos, names) IN
    IF ~t.ok THEN [ok |-> FALSE, err |-> t.err] ELSE
    LET rawlen == Read(data, t.pos, 4)
        l == UnpackI(rawlen)
    IN
    IF ~l.ok THEN [ok |-> FALSE, err |-> l.err] ELSE
    LET size == l.val - 4
        value == Read(data, t.pos + 4, size)
    IN  [ok |-> TRUE,
         triple |-> << n.name, t.name, value >>,
         declared |-> l.val,
         pos |-> t.pos + 4 + Len(value)]

\* an except clause that catches struct.error alone
ExceptOutcome_StructErrorOnly(err) == IF err = "struct.error" THEN "returned" ELSE "raised"

\* an except clause that raises the exception again
ExceptOutcome_Reraises(err) == "raised"

\* lines 121-123: "except:" catches every exception, whatever its class,
\* and breaks out of the loop, so the function goes on to return
ExceptOutcome(err) == "returned"

\* the while condition: buffer.tell() < len(chunk) - 1
LoopCondition(data, pos) == pos < Len(data) - 1

\* zero = buffer.read(1); assert zero == b"\0"
MarkerOk(data) == Read(data, 0, 1) = << 0 >>

RECURSIVE VariablesFrom(_, _, _, _)
VariablesFrom(data, pos, names, acc) ==
    IF ~LoopCondition(data, pos) THEN acc
    ELSE LET r == ReadVariable(data, pos, names)
         IN  IF r.ok THEN VariablesFrom(data, r.pos, names, Append(acc, r.triple))
             ELSE acc

\* the whole call, as parse_chunk uses it
get_chunk_variables(data, names) ==
    IF ~MarkerOk(data) THEN [ok |-> FALSE, err |-> "AssertionError"]
    ELSE [ok |-> TRUE, variables |-> VariablesFrom(data, 1, names, << >>)]

(***************************************************************************)
(* Property streams given to get_chunk_variables.                          *)
(***************************************************************************)
\* a names list with the "None" slot, an empty name and two usable names
GcvNames == << "None", "", "width", "Uint32" >>

\* the ordinals read_c_name accepts under GcvNames
ValidOrds == { o \in 0..(Len(GcvNames) - 1) : GcvNames[o + 1] \notin {"", "None"} }

PropValues == { << >>, << 7 >>, << 7, 9 >> }

StrayBytes == { 0, 2 }

\* a well-formed record: two valid ordinals, L = 4 + len(value), the value
WfRecord == [name : ValidOrds, type : ValidOrds, value : PropValues]

EncodeRecord(r) == PackH(r.name) \o PackH(r.type) \o PackI(Len(r.value) + 4) \o r.value

EncodeRecords(recs) == Concat([i \in 1..Len(recs) |-> EncodeRecord(recs[i])])

\* the triple a well-formed record stands for
TripleOf(r) == << GcvNames[r.name + 1], GcvNames[r.type + 1], r.value >>

\* every ordinal that fits the names list, and one beyond it
AllOrds == 0..Len(GcvNames)

\* a record that read_c_name refuses: its name or its type ordinal is out
\* of range or resolves to the empty name or to "None"
BadRecord ==
    { r \in [name : AllOrds, type : AllOrds, value : { << 7 >> }] :
        r.name \notin ValidOrds \/ r.type \notin ValidOrds }

\* how a stream is made: the records, the first byte, the bytes appended,
\* the number of bytes cut off the end, and a refused record with the
\* well-formed records that follow it (at most one of marker, stray, cut
\* and bad departs from a well-formed stream)
GcvSources ==
    { s \in [recs : SeqsUpTo(WfRecord, MaxRecs),
             marker : {0, 1},
             stray : SeqsUpTo(StrayBytes, MaxStray),
             cut : 0..MaxCut,
             bad : SeqsUpTo(BadRecord, 1),
             after : SeqsUpTo({ [name |-> 2, type |-> 3, value |-> << 7, 9 >>] }, 1)] :
        /\ s.marker = 1 => (s.stray = << >> /\ s.cut = 0 /\ s.bad = << >>)
        /\ s.stray # << >> => (s.cut = 0 /\ s.bad = << >>)
        /\ s.cut # 0 => s.bad = << >>
        /\ s.bad = << >> => s.after = << >>
        /\ s.cut <= Len(EncodeRecords(s.recs)) }

StreamOf(s) ==
    LET full == << s.marker >> \o EncodeRecords(s.recs) \o s.stray
                    \o EncodeRecords(s.bad) \o EncodeRecords(s.after)
    IN  SubSeq(full, 1, Len(full) - s.cut)

(***************************************************************************)
(* utils.to_snake_case.  The patterns are those of the regex module:       *)
(*   _case_boundary_re  = (\p{Ll})(\p{Lu})                                 *)
(*   _single_letters_re = (\p{Lu}|\p{N})(\p{Lu})(\p{Ll})                   *)
(* over the ASCII letters and digits.                                      *)
(***************************************************************************)
LowerLetters == "abcdefghijklmnopqrstuvwxyz"

UpperLetters == "ABCDEFGHIJKLMNOPQRSTUVWXYZ"

Digits == "0123456789"

CharAt(s, i) == SubSeq(s, i, i)

CharsOf(s) == { CharAt(s, i) : i \in 1..Len(s) }

Ll == CharsOf(LowerLetters)

Lu == CharsOf(UpperLetters)

Nd == CharsOf(Digits)

\* str.lower() of one character
LowerChar(c) ==
    IF c \in Lu
    THEN CharAt(LowerLetters, CHOOSE i \in 1..Len(UpperLetters) : CharAt(UpperLetters, i) = c)
    ELSE c

RECURSIVE Lower(_)
Lower(s) == IF s = "" THEN "" ELSE LowerChar(CharAt(s, 1)) \o Lower(SubSeq(s, 2, Len(s)))

\* _case_boundary_re matches at position i
CaseBoundaryAt(s, i) ==
    /\ i + 1 <= Len(s)
    /\ CharAt(s, i) \in Ll
    /\ CharAt(s, i + 1) \in Lu

\* _single_letters_re matches at position i
SingleLettersAt(s, i) ==
    /\ i + 2 <= Len(s)
    /\ CharAt(s, i) \in Lu \cup Nd
    /\ CharAt(s, i + 1) \in Lu
    /\ CharAt(s, i + 2) \in Ll

\* findall(value) is not empty
HasCaseBoundary(s) == \E i \in 1..Len(s) : CaseBoundaryAt(s, i)

HasSingleLetters(s) == \E i \in 1..Len(s) : SingleLettersAt(s, i)

\* _case_boundary_re.sub(r"\1_\2", value): the matches are two characters
\* long and are replaced from left to right without overlap
RECURSIVE SubCaseBoundary(_, _)
SubCaseBoundary(s, i) ==
    IF i > Len(s) THEN ""
    ELSE IF CaseBoundaryAt(s, i)
         THEN CharAt(s, i) \o "_" \o CharAt(s, i + 1) \o SubCaseBoundary(s, i + 2)
         ELSE CharAt(s, i) \o SubCaseBoundary(s, i + 1)

\* _case_boundary_re.sub(r"\1_\2\3", value): the template names a third
\* group, which the pattern does not have; the regex module raises its error
\* when it expands the template for a match, and returns the string as it is
\* when nothing matches
SubCaseBoundaryThreeGroups(s) ==
    IF HasCaseBoundary(s) THEN [ok |-> FALSE, err |-> "regex.error"]
    ELSE [ok |-> TRUE, val |-> s]

to_snake_case(value) ==
    IF ~HasCaseBoundary(value) /\ ~HasSingleLetters(value)
    THEN [ok |-> TRUE, val |-> value]
    ELSE LET second == SubCaseBoundaryThreeGroups(SubCaseBoundary(value, 1))
         IN  IF second.ok THEN [ok |-> TRUE, val |-> Lower(second.val)]
             ELSE second

(***************************************************************************)
(* Decoded values.  Every value is a record with a tag.                    *)
(***************************************************************************)
IntV(n) == [tag |-> "int", int |-> n]

BoolV(b) == [tag |-> "bool", bool |-> b]

\* a member of an enum of cr2w.enums
EnumV(cls, member) == [tag |-> "enum", cls |-> cls, member |-> member]

\* a tuple of floats, written as integers
TupleV(items) == [tag |-> "tuple", items |-> items]

ListV == [tag |-> "list", items |-> << >>]

\* an instance of a bytes subclass: the value bytes under its class name
BytesV(cls, b) == [tag |-> "bytes", cls |-> cls, bytes |-> b]

\* the pair (red_type_name, name) that instantiate_type returns for a Name
NameV(cls, name) == [tag |-> "name", cls |-> cls, name |-> name]

\* an instance of a dataclass: fields maps the field names to their values
ObjV(cls, fields) == [tag |-> "obj", cls |-> cls, fields |-> fields]

NoDefault == [tag |-> "none"]

(***************************************************************************)
(* A dict that keeps insertion order: a sequence of << key, value >> pairs *)
(* with distinct keys.                                                     *)
(***************************************************************************)
DictKeys(d) == { d[i][1] : i \in DOMAIN d }

DictGet(d, k) == d[CHOOSE i \in DOMAIN d : d[i][1] = k][2]

\* d[k] = v
DictSet(d, k, v) ==
    IF k \in DictKeys(d)
    THEN [i \in DOMAIN d |-> IF d[i][1] = k THEN << k, v >> ELSE d[i]]
    ELSE Append(d, << k, v >>)

(***************************************************************************)
(* The dataclasses of datatypes.py: each field is required, has a default  *)
(* or has a default_factory.                                               *)
(***************************************************************************)
Req(name) == [name |-> name, kind |-> "required", default |-> NoDefault, factory |-> ""]

Dflt(name, v) == [name |-> name, kind |-> "default", default |-> v, factory |-> ""]

Fact(name, f) == [name |-> name, kind |-> "factory", default |-> NoDefault, factory |-> f]

Fields_rendRenderTextureBlobTextureInfo ==
    << Req("texture_data_size"), Req("slice_size"), Req("data_alignment"),
       Req("slice_count"), Req("mip_count"),
       Dflt("type", EnumV("GpuWrapApieTextureType", "TEXTYPE_2D")) >>

Fields_rendRenderTextureBlobSizeInfo ==
    << Req("width"), Req("height"), Dflt("depth", IntV(1)) >>

Fields_rendRenderTextureBlobHeader ==
    << Req("version"), Req("size_info"), Req("texture_info"), Req("flags"),
       Fact("mip_map_info", "list"), Fact("histogram_data", "list") >>

Fields_rendRenderTextureBlobPC == << Req("header"), Req("texture_data") >>

Fields_STextureGroupSetup ==
    << Req("compression"), Req("is_gamma"),
       Dflt("platform_mip_bias_pc", IntV(0)),
       Dflt("platform_mip_bias_console", IntV(0)),
       Dflt("is_streamable", BoolV(TRUE)),
       Dflt("has_mipchain", BoolV(TRUE)),
       Dflt("allow_texture_downgrade", BoolV(TRUE)),
       Dflt("group", EnumV("GpuWrapApieTextureGroup", "TEXG_Generic_Color")),
       Dflt("raw_format", EnumV("ETextureRawFormat", "TRF_TrueColor")) >>

Fields_rendRenderTextureResource == << Req("render_resource_blob_pc") >>

Fields_CBitmapTexture ==
    << Req("cooking_platform"), Req("width"), Req("height"),
       Req("render_texture_resource"),
       Fact("setup", "STextureGroupSetup"),
       Dflt("depth", IntV(1)),
       Dflt("hist_bias_mul_coef", TupleV(<< 1, 1, 1 >>)),
       Dflt("hist_bias_add_coef", TupleV(<< 0, 0, 0 >>)) >>

\* the Chunk subclasses
Schemas ==
    { "rendRenderTextureBlobTextureInfo", "rendRenderTextureBlobSizeInfo",
      "rendRenderTextureBlobHeader", "rendRenderTextureBlobPC",
      "STextureGroupSetup", "rendRenderTextureResource", "CBitmapTexture" }

FieldsOf(cls) ==
    CASE cls = "rendRenderTextureBlobTextureInfo" -> Fields_rendRenderTextureBlobTextureInfo
      [] cls = "rendRenderTextureBlobSizeInfo" -> Fields_rendRenderTextureBlobSizeInfo
      [] cls = "rendRenderTextureBlobHeader" -> Fields_rendRenderTextureBlobHeader
      [] cls = "rendRenderTextureBlobPC" -> Fields_rendRenderTextureBlobPC
      [] cls = "STextureGroupSetup" -> Fields_STextureGroupSetup
      [] cls = "rendRenderTextureResource" -> Fields_rendRenderTextureResource
      [] cls = "CBitmapTexture" -> Fields_CBitmapTexture

FieldNames(cls) == { FieldsOf(cls)[i].name : i \in DOMAIN FieldsOf(cls) }

\* cls(**kw), the __init__ that @dataclass generates: a keyword that is no
\* field and a required field that is missing are TypeErrors; a field left
\* out takes its default, or the result of calling its default_factory
\* with no argument
RECURSIVE Construct(_, _)
Construct(cls, kw) ==
    LET fs == FieldsOf(cls)
        missing == { i \in DOMAIN fs : fs[i].name \notin DictKeys(kw) }
        made == [i \in { j \in missing : fs[j].kind = "factory" } |->
                    IF fs[i].factory = "list" THEN [ok |-> TRUE, val |-> ListV]
                    ELSE Construct(fs[i].factory, << >>)]
    IN  IF \E k \in DictKeys(kw) : k \notin FieldNames(cls)
        THEN [ok |-> FALSE, err |-> "TypeError"]
        ELSE IF \E i \in missing : fs[i].kind = "required"
        THEN [ok |-> FALSE, err |-> "TypeError"]
        ELSE IF \E i \in DOMAIN made : ~made[i].ok
        THEN [ok |-> FALSE, err |-> (made[CHOOSE i \in DOMAIN made : ~made[i].ok]).err]
        ELSE [ok |-> TRUE,
              val |-> ObjV(cls,
                  [n \in FieldNames(cls) |->
                      LET i == CHOOSE j \in DOMAIN fs : fs[j].name = n
                      IN  IF n \in DictKeys(kw) THEN DictGet(kw, n)
                          ELSE IF fs[i].kind = "default" THEN fs[i].default
                          ELSE made[i].val])]

\* the dict comprehension of from_cr2w_kwargs: the keys in snake case, in
\* insertion order, a later key replacing an equal earlier one
RECURSIVE SnakeKwargs(_, _)
SnakeKwargs(kwargs, acc) ==
    IF kwargs = << >> THEN [ok |-> TRUE, val |-> acc]
    ELSE LET k == to_snake_case(Head(kwargs)[1])
         IN  IF ~k.ok THEN [ok |-> FALSE, err |-> k.err]
             ELSE SnakeKwargs(Tail(kwargs), DictSet(acc, k.val, Head(kwargs)[2]))

\* Chunk.from_cr2w_kwargs
from_cr2w_kwargs(cls, kwargs) ==
    LET new_kwargs == SnakeKwargs(kwargs, << >>)
    IN  IF ~new_kwargs.ok THEN [ok |-> FALSE, err |-> new_kwargs.err]
        ELSE Construct(cls, new_kwargs.val)

(***************************************************************************)
(* The type registry _red_type_lookup and the leaf decoders.               *)
(***************************************************************************)
\* the decode strategy of a wire type name under the dict literal; the enum
\* classes that the module adds from cr2w.enums.__all__ are not modelled
KindOf(red_type_name) ==
    CASE red_type_name = "ECookingPlatform" -> "Name"
      [] red_type_name \in {"Uint32", "Uint16", "Uint8"} -> "uint"
      [] red_type_name \in Schemas -> "schema"
      [] red_type_name = "serializationDeferredDataBuffer" -> "bytes"
      [] red_type_name = "handle:IRenderResourceBlob" -> "handle"
      [] red_type_name = "Bool" -> "bool"
      [] red_type_name = "array:rendRenderTextureBlobMipMapInfo" -> "bytes"
      [] OTHER -> "unregistered"

\* lookup_type raises NotImplementedError for a name that is no key
lookup_type(red_type_name) ==
    IF KindOf(red_type_name) = "unregistered"
    THEN [ok |-> FALSE, err |-> "NotImplementedError"]
    ELSE [ok |-> TRUE, val |-> KindOf(red_type_name)]

\* uint(value)
uint(value) == FromBytesLE(value)

\* bool(value) of a bytes object: whether it is not empty
PyBool(value) == Len(value) > 0

\* list indexing xs[i]: a negative index counts from the end, and an index
\* outside -len..len-1 is an IndexError
PyIndex(xs, i) ==
    IF 0 <= i /\ i < Len(xs) THEN [ok |-> TRUE, at |-> i + 1]
    ELSE IF i < 0 /\ -i <= Len(xs) THEN [ok |-> TRUE, at |-> Len(xs) + i + 1]
    ELSE [ok |-> FALSE, err |-> "IndexError"]

\* Name.lookup(value, names_list)
NameLookup(value, names) ==
    LET at == PyIndex(names, uint(value))
    IN  IF at.ok THEN [ok |-> TRUE, val |-> names[at.at]] ELSE at

\* the branches of instantiate_type that return without a nested decode
InstantiateLeaf(red_type_name, value, names) ==
    LET kind == KindOf(red_type_name)
    IN  CASE kind = "Name" ->
                LET n == NameLookup(value, names)
                IN  IF n.ok THEN [ok |-> TRUE, val |-> NameV(red_type_name, n.val)] ELSE n
          [] kind = "uint" -> [ok |-> TRUE, val |-> IntV(uint(value))]
          [] kind = "bool" -> [ok |-> TRUE, val |-> BoolV(PyBool(value))]
          [] kind = "bytes" -> [ok |-> TRUE, val |-> BytesV(red_type_name, value)]

(***************************************************************************)
(* The call stack of a decode.  A frame is a call of instantiate_type, of  *)
(* handle, or of from_chunk with the parse_chunk it makes; the frame on    *)
(* top is the one that runs.                                               *)
(***************************************************************************)
\* instantiate_type(red_type_name, value, names_list, chunks); row is the
\* export row the arguments were taken from, -1 when from none
InstFrame(red_type_name, value, row) ==
    [fn |-> "instantiate_type", t |-> red_type_name, value |-> value, row |-> row,
     todo |-> << >>, kwargs |-> << >>, key |-> ""]

\* handle(handle, names_list, chunks)
HandleFrame(value) ==
    [fn |-> "handle", t |-> "", value |-> value, row |-> -1,
     todo |-> << >>, kwargs |-> << >>, key |-> ""]

\* cls.from_chunk / parse_chunk: todo are the variables not yet
\* instantiated, kwargs the dict so far, key the name being instantiated
ParseFrame(cls, todo, kwargs, key) ==
    [fn |-> "parse_chunk", t |-> cls, value |-> << >>, row |-> -1,
     todo |-> todo, kwargs |-> kwargs, key |-> key]

\* the frames left when the call on top returns: instantiate_type and
\* handle return the value of the call they made as it is
RECURSIVE Unwind(_)
Unwind(stk) ==
    IF stk = << >> THEN stk
    ELSE IF stk[Len(stk)].fn \in {"instantiate_type", "handle"}
         THEN Unwind(SubSeq(stk, 1, Len(stk) - 1))
         ELSE stk

\* the stack after the call on top returns v: the parse_chunk that waits
\* for it stores it under the name of the variable
StackAfterReturn(stk, v) ==
    LET rest == Unwind(SubSeq(stk, 1, Len(stk) - 1))
    IN  IF rest = << >> THEN rest
        ELSE [rest EXCEPT ![Len(rest)].kwargs = DictSet(@, rest[Len(rest)].key, v)]

\* handle() with the wire index taken as the row itself
HandleRow_NoOffset(value) == uint(value)

\* handle_idx = int.from_bytes(handle, "little") - 1
HandleRow(value) == uint(value) - 1

(***************************************************************************)
(* Export tables and calls given to the decoder.                           *)
(***************************************************************************)
DecNames ==
    << "None", "renderResourceBlobPC", "handle:IRenderResourceBlob",
       "width", "height", "Uint16", "header", "textureData" >>

OrdOf(name) == (CHOOSE i \in DOMAIN DecNames : DecNames[i] = name) - 1

Prop(name, type, value) == [name |-> OrdOf(name), type |-> OrdOf(type), value |-> value]

\* an export as read_chunk returns it: the raw data and the class name
Export(type, props) == [data |-> << 0 >> \o EncodeRecords(props), type |-> type]

\* a texture resource whose blob is handle h
ResourceExport(h) ==
    Export("rendRenderTextureResource",
           << Prop("renderResourceBlobPC", "handle:IRenderResourceBlob", PackI(h)) >>)

\* a chunk with two handles, both h
TwoHandleExport(h) ==
    Export("rendRenderTextureBlobPC",
           << Prop("header", "handle:IRenderResourceBlob", PackI(h)),
              Prop("textureData", "handle:IRenderResourceBlob", PackI(h)) >>)

SizeInfoExport ==
    Export("rendRenderTextureBlobSizeInfo",
           << Prop("width", "Uint16", << 64, 0 >>), Prop("height", "Uint16", << 32, 0 >>) >>)

\* an export of a class that is not registered
UnregisteredExport == [data |-> << 0 >>, type |-> "CMesh"]

\* the rows of an export table of n rows
ExportsFor(n) ==
    { ResourceExport(h) : h \in 0..(n + 1) }
        \cup { TwoHandleExport(h) : h \in 1..n }
        \cup { SizeInfoExport, UnregisteredExport }

ExportTables == UNION { [1..n -> ExportsFor(n)] : n \in 0..NumExports }

\* calls of instantiate_type that need no export table
LeafCalls ==
    { [t |-> "Bool", value |-> << 0 >>], [t |-> "Bool", value |-> << 1 >>],
      [t |-> "Bool", value |-> << >>],
      [t |-> "Uint16", value |-> << 64, 1 >>],
      [t |-> "array:rendRenderTextureBlobMipMapInfo", value |-> << 1, 2, 3 >>],
      [t |-> "array:Float", value |-> << 1, 2, 3 >>],
      [t |-> "serializationDeferredDataBuffer", value |-> << 1, 0 >>],
      [t |-> "CMesh", value |-> << 0 >>],
      [t |-> "rendRenderTextureBlobSizeInfo", value |-> SizeInfoExport.data],
      [t |-> "rendRenderTextureBlobSizeInfo", value |-> << 1 >>] }

\* property mappings given to from_cr2w_kwargs, keyed by wire name
RequiredBitmapKwargs ==
    << << "cookingPlatform", EnumV("ECookingPlatform", "PLATFORM_PC") >>,
       << "width", IntV(64) >>,
       << "height", IntV(32) >>,
       << "renderTextureResource",
          ObjV("rendRenderTextureResource", [n \in {"render_resource_blob_pc"} |-> ListV]) >> >>

SetupKwarg ==
    << "setup",
       ObjV("STextureGroupSetup",
            Construct("STextureGroupSetup",
                      << << "compression", EnumV("ETextureCompression", "TCM_None") >>,
                         << "is_gamma", BoolV(FALSE) >> >>).val.fields) >>

BindCalls ==
    { [cls |-> "CBitmapTexture", kwargs |-> RequiredBitmapKwargs],
      [cls |-> "CBitmapTexture", kwargs |-> Append(RequiredBitmapKwargs, SetupKwarg)],
      [cls |-> "CBitmapTexture",
       kwargs |-> RequiredBitmapKwargs \o << SetupKwarg, << "depth", IntV(2) >> >>],
      [cls |-> "CBitmapTexture", kwargs |-> Tail(RequiredBitmapKwargs)],
      [cls |-> "CBitmapTexture",
       kwargs |-> RequiredBitmapKwargs \o << SetupKwarg, << "mipCount", IntV(1) >> >>],
      [cls |-> "rendRenderTextureBlobSizeInfo",
       kwargs |-> << << "width", IntV(64) >>, << "height", IntV(32) >> >>],
      [cls |-> "STextureGroupSetup", kwargs |-> << >>] }

(***************************************************************************)
(* header_structs.py: the struct sizes, and the layout that read_file_info *)
(* walks through.                                                          *)
(***************************************************************************)
CR2WTable_size == 12

CR2WNameInfo_size == 8

CR2WImportInfo_size == 8

CR2WPropertyInfo_size == 16

CR2WExportInfo_size == 24

CR2WBufferInfo_size == 24

CR2WEmbeddedInfo_size == 16

CR2WFileHeader_size == 36

\* the number of table headers read_file_info reads
NumTableHeaders == 10

\* the versions read_file_info accepts
MinVersion == 163

MaxVersion == 195

\* a check that takes the two limits as unsupported
VersionSupported_Exclusive(v) == v > MinVersion /\ v < MaxVersion

\* line 120: the version passes when the condition of the if is false
VersionSupported(v) == ~(v > MaxVersion \/ v < MinVersion)

\* the tables read with read_tables, in the order read_file_info reads them:
\* each is read under table_headers[i]
FixedTables == 1..6

\* table_struct._size of the table read under table_headers[i]
StructSize(i) ==
    CASE i = 1 -> CR2WNameInfo_size
      [] i = 2 -> CR2WImportInfo_size
      [] i = 3 -> CR2WPropertyInfo_size
      [] i = 4 -> CR2WExportInfo_size
      [] i = 5 -> CR2WBufferInfo_size
      [] i = 6 -> CR2WEmbeddedInfo_size

Magic == << 67, 82, 50, 87 >>

\* read_struct(fp, CR2WTable): offset, item_count, crc32
UnpackTable(b) ==
    IF Len(b) # CR2WTable_size THEN [ok |-> FALSE, err |-> "struct.error"]
    ELSE [ok |-> TRUE,
          val |-> [offset |-> FromBytesLE(SubSeq(b, 1, 4)),
                   item_count |-> FromBytesLE(SubSeq(b, 5, 8)),
                   crc32 |-> U32Pair(SubSeq(b, 9, 12))]]

\* the ten read_struct calls of line 124, from position pos on
RECURSIVE ReadTableHeaders(_, _, _, _)
ReadTableHeaders(data, pos, k, acc) ==
    IF k = 0 THEN [ok |-> TRUE, val |-> acc, pos |-> pos]
    ELSE LET raw == Read(data, pos, CR2WTable_size)
             t == UnpackTable(raw)
         IN  IF ~t.ok THEN [ok |-> FALSE, err |-> t.err, pos |-> pos + Len(raw)]
             ELSE ReadTableHeaders(data, pos + Len(raw), k - 1, Append(acc, t.val))

\* read_tables without the assertion
ChecksumOk_Unchecked(table_bytes, header) == TRUE

\* io.py lines 71-72: crc32 = binascii.crc32(table_bytes);
\* assert crc32 == header.crc32
ChecksumOk(table_bytes, header) == crc32(table_bytes) = header.crc32

\* io.py lines 73-75: the chunk of each record and struct.unpack on it,
\* which raises struct.error for a chunk shorter than the struct; a record
\* is kept as the bytes of its chunk
UnpackRecords(table_bytes, size, item_count) ==
    LET chunkOf(idx) == SubSeq(table_bytes, idx * size + 1,
                               Min(size + idx * size, Len(table_bytes)))
    IN  IF \E idx \in 0..(item_count - 1) : Len(chunkOf(idx)) # size
        THEN [ok |-> FALSE, err |-> "struct.error"]
        ELSE [ok |-> TRUE, val |-> [j \in 1..item_count |-> chunkOf(j - 1)]]

\* list(read_tables(fp, table_struct, header)) with fp at position pos
read_tables(data, pos, size, header) ==
    LET table_bytes == Read(data, pos, size * header.item_count)
    IN  IF ~ChecksumOk(table_bytes, header)
        THEN [ok |-> FALSE, err |-> "AssertionError", pos |-> pos + Len(table_bytes),
              block |-> table_bytes, records |-> << >>]
        ELSE LET u == UnpackRecords(table_bytes, size, header.item_count)
             IN  [ok |-> u.ok, err |-> IF u.ok THEN "" ELSE u.err,
                  pos |-> pos + Len(table_bytes), block |-> table_bytes,
                  records |-> IF u.ok THEN u.val ELSE << >>]

\* fields of the unpacked records
NameInfoOffset(rec) == FromBytesLE(SubSeq(rec, 1, 4))

ImportInfoOffset(rec) == FromBytesLE(SubSeq(rec, 1, 4))

ImportInfoClassName(rec) == FromBytesLE(SubSeq(rec, 5, 6))

ImportInfoFlags(rec) == FromBytesLE(SubSeq(rec, 7, 8))

\* io.py lines 160-163: _names_list, with the assertion on each offset
NamesList(name_info, sdict) ==
    IF \E i \in DOMAIN name_info : NameInfoOffset(name_info[i]) \notin DictKeys(sdict)
    THEN [ok |-> FALSE, err |-> "AssertionError"]
    ELSE [ok |-> TRUE,
          val |-> [i \in DOMAIN name_info |-> DictGet(sdict, NameInfoOffset(name_info[i]))]]

\* io.py lines 165-173: _imports_list; the first import that fails decides
RECURSIVE ImportsList(_, _, _, _)
ImportsList(import_info, names, sdict, acc) ==
    IF import_info = << >> THEN [ok |-> TRUE, val |-> acc]
    ELSE LET an == Head(import_info)
             at == PyIndex(names, ImportInfoClassName(an))
         IN  IF ImportInfoOffset(an) \notin DictKeys(sdict)
             THEN [ok |-> FALSE, err |-> "AssertionError"]
             ELSE IF ~at.ok THEN [ok |-> FALSE, err |-> at.err]
             ELSE ImportsList(Tail(import_info), names, sdict,
                              Append(acc, [class_name |-> names[at.at],
                                           depot_path |-> << >>,
                                           flags |-> ImportInfoFlags(an)]))

(***************************************************************************)
(* Files given to read_file_info.                                          *)
(***************************************************************************)
\* the string region: "" at offset 0 and "a" at offset 1
StringRegion == << 0, 97, 0 >>

\* record j of the table under table_headers[i]: a name or an import points
\* at a string of the region, the other bytes are filler
TableRecord(i, j) ==
    CASE i = 1 -> PackI(j % 2) \o << 17, 34, 51, 200 >>
      [] i = 2 -> PackI(j % 2) \o PackH(0) \o PackH(j)
      [] OTHER -> [k \in 1..StructSize(i) |-> (40 * i + 10 * j + k) % 256]

TableBlock(i, n) == Concat([j \in 1..n |-> TableRecord(i, j)])

\* how many records each fixed table holds
ItemCounts ==
    { [i \in FixedTables |-> n] : n \in 0..MaxItems }
        \cup { [i \in FixedTables |-> IF i = j THEN 1 ELSE 0] : j \in FixedTables }

\* what departs from a consistent file: nothing, a wrong magic, a version,
\* the offset of one directory entry, the checksum of one directory entry,
\* one byte of one table block, or the length at which the file ends
FileFaults ==
    { [kind |-> "none", at |-> 0], [kind |-> "magic", at |-> 0] }
        \cup { [kind |-> "version", at |-> v] : v \in {0, 162, 163, 164, 194, 195, 196, 65716} }
        \cup { [kind |-> "offset", at |-> i] : i \in 0..6 }
        \cup { [kind |-> "checksum", at |-> i] : i \in FixedTables }
        \cup { [kind |-> "byte", at |-> i] : i \in FixedTables }
        \cup { [kind |-> "length", at |-> n] : n \in {2, 20, 100, 162, 170} }

FileSources ==
    { s \in [counts : ItemCounts, fault : FileFaults] :
        s.fault.kind = "byte" => s.counts[s.fault.at] > 0 }

FaultIs(s, kind, at) == s.fault.kind = kind /\ s.fault.at = at

\* the table block as the file holds it
FileBlock(s, i) ==
    LET b == TableBlock(i, s.counts[i])
    IN  IF FaultIs(s, "byte", i) THEN [b EXCEPT ![1] = (@ + 1) % 256] ELSE b

\* where the table under table_headers[i] begins in the file
RECURSIVE LayoutOffset(_, _)
LayoutOffset(s, i) ==
    IF i = 0 THEN Len(Magic) + CR2WFileHeader_size + NumTableHeaders * CR2WTable_size
    ELSE IF i = 1 THEN LayoutOffset(s, 0) + Len(StringRegion)
    ELSE LayoutOffset(s, i - 1) + StructSize(i - 1) * s.counts[i - 1]

DirectoryEntry(s, i) ==
    LET offset == LayoutOffset(s, i) + (IF FaultIs(s, "offset", i) THEN 1 ELSE 0)
        sum == crc32(TableBlock(i, s.counts[i]))
    IN  PackI(offset)
            \o PackI(s.counts[i])
            \o PackPair(IF FaultIs(s, "checksum", i) THEN Xor32(sum, << 0, 1 >>) ELSE sum)

FileOf(s) ==
    LET version == IF s.fault.kind = "version" THEN s.fault.at ELSE 180
        header == PackI(version) \o [k \in 1..(CR2WFileHeader_size - 4) |-> 0]
        strings == PackI(LayoutOffset(s, 0) + (IF FaultIs(s, "offset", 0) THEN 1 ELSE 0))
                       \o PackI(Len(StringRegion)) \o PackPair(crc32(StringRegion))
        unused == [k \in 1..((NumTableHeaders - 7) * CR2WTable_size) |-> 0]
        full == (IF s.fault.kind = "magic" THEN << 67, 82, 50, 88 >> ELSE Magic)
                    \o header \o strings
                    \o Concat([i \in FixedTables |-> DirectoryEntry(s, i)]) \o unused
                    \o StringRegion
                    \o Concat([i \in FixedTables |-> FileBlock(s, i)])
    IN  IF s.fault.kind = "length" THEN SubSeq(full, 1, Min(s.fault.at, Len(full)))
        ELSE full

(***************************************************************************)
(* io.read_chunk and cr2w.utils.get_names_list.                            *)
(***************************************************************************)
\* get_names_list(file_info): the same loop and assertion as lines 160-163
\* of read_file_info
get_names_list(file_info) == NamesList(file_info.name_info, file_info.string_dict)

\* read_chunk without the assertion
OffsetOk_Unchecked(pos, info) == TRUE

\* line 204: assert fp.tell() == info.data_offset
OffsetOk(pos, info) == pos = info.data_offset

\* read_chunk(fp, chunk_index, file_info) with fp at position pos over
\* data: the tuple returned and the new position, or the exception raised;
\* warned tells whether warnings.warn was called.  fp.seek may move the
\* position beyond the end of the data.
read_chunk(data, pos, chunk_index, file_info) ==
    LET failed(err) == [ok |-> FALSE, err |-> err, pos |-> pos, warned |-> FALSE]
        names == get_names_list(file_info)
        row == PyIndex(file_info.export_info, chunk_index)
    IN  IF ~names.ok THEN failed(names.err)
        ELSE IF ~row.ok THEN failed(row.err)
        ELSE LET info == file_info.export_info[row.at]
                 name == PyIndex(names.val, info.class_name)
                 read == Read(data, pos, info.data_size)
                 told == pos + Len(read)
                 mismatch == told - info.data_offset # info.data_size
             IN  IF ~name.ok THEN failed(name.err)
                 ELSE IF ~OffsetOk(pos, info) THEN failed("AssertionError")
                 ELSE [ok |-> TRUE, data |-> read, type |-> names.val[name.at],
                       warned |-> mismatch,
                       pos |-> IF mismatch THEN info.data_offset + info.data_size
                               ELSE told]

(***************************************************************************)
(* Files and export tables given to read_chunk.                            *)
(***************************************************************************)
\* two names: "a" (ordinal 0) and the empty string stored as "None"
ChunkNameInfo == [j \in 1..2 |-> TableRecord(1, j)]

ChunkStringDict == << << 0, << 78, 111, 110, 101 >> >>, << 1, << 97 >> >> >>

\* an export: a class name that resolves or one beyond the names list, a
\* size, and an offset at or after the start of the chunk data region
ExportInfos ==
    [class_name : {0, 2},
     data_size : {1, 2},
     data_offset : ChunkStart..(ChunkStart + 3)]

ExportInfoTables == UNION { [1..n -> ExportInfos] : n \in 0..MaxChunks }

\* the stream: the bytes before the chunk data region and 1, 3 or 6 bytes
\* after its start
ChunkFiles == { [k \in 1..(ChunkStart + n) |-> k % 256] : n \in {1, 3, 6} }

(***************************************************************************)
(* State.                                                                  *)
(***************************************************************************)
VARIABLES
    gcv_src,        \* how the chunk given to get_chunk_variables was made
    chunk,          \* get_chunk_variables: the chunk argument
    buffer_pos,     \* get_chunk_variables: buffer.tell()
    variables,      \* get_chunk_variables: the list being built
    declared,       \* the length field L read for each triple of variables
    gcv_pc          \* "idle", "start", "loop", "returned", "raised"

gcvVars == << gcv_src, chunk, buffer_pos, variables, declared, gcv_pc >>

VARIABLES
    chunks,         \* the export table: a list of (data, class name)
    dec_root,       \* the call the decode was started with
    stack,          \* the call stack of the decode
    result,         \* what the outermost call returned or raised
    handles,        \* the handle() calls made so far, in order
    dec_pc          \* "idle", "run", "done"

decVars == << chunks, dec_root, stack, result, handles, dec_pc >>

VARIABLES
    file_src,       \* how the file given to read_file_info was made
    file,           \* the bytes behind fp
    fp_pos,         \* fp.tell()
    version,        \* file_header.version
    table_headers,  \* the ten CR2WTable read at line 124
    string_dict,    \* offset in the string region -> string
    cur_string,     \* the string being read: its offset (pos) and bytes
    table_reads,    \* per table begun: its index, fp.tell() at its start,
                    \* the raw block read and the records unpacked
    file_info,      \* what read_file_info returned or raised
    empty_reads,    \* how many fp.read(1) of the string loop returned b""
    rfi_pc          \* where read_file_info is

rfiVars == << file_src, file, fp_pos, version, table_headers, string_dict,
              cur_string, table_reads, file_info, empty_reads, rfi_pc >>

VARIABLES
    rc_file,        \* the bytes behind the fp given to read_chunk
    rc_pos,         \* fp.tell()
    rc_info,        \* the file_info argument
    rc_calls,       \* the read_chunk calls made so far, in order: the
                    \* position at entry and what the call gave
    rc_pc           \* "idle", "reading", "done", "raised"

rcVars == << rc_file, rc_pos, rc_info, rc_calls, rc_pc >>

VARIABLES
    tsc_value,      \* the argument of to_snake_case
    tsc_result,     \* what it returned or raised
    tsc_pc          \* "idle", "called", "done"

tscVars == << tsc_value, tsc_result, tsc_pc >>

vars == << gcvVars, decVars, rfiVars, rcVars, tscVars >>

RcIdle ==
    /\ rc_file = << >>
    /\ rc_pos = 0
    /\ rc_info = [name_info |-> << >>, string_dict |-> << >>, export_info |-> << >>]
    /\ rc_calls = << >>
    /\ rc_pc = "idle"

TscIdle ==
    /\ tsc_value = ""
    /\ tsc_result = [ok |-> TRUE, val |-> ""]
    /\ tsc_pc = "idle"

NoString == [pos |-> -1, string |-> << >>]

RfiIdle ==
    /\ file_src = [counts |-> [i \in FixedTables |-> 0], fault |-> [kind |-> "none", at |-> 0]]
    /\ file = << >>
    /\ fp_pos = 0
    /\ version = 0
    /\ table_headers = << >>
    /\ string_dict = << >>
    /\ cur_string = NoString
    /\ table_reads = << >>
    /\ file_info = [ok |-> TRUE, val |-> NoDefault]
    /\ empty_reads = 0
    /\ rfi_pc = "idle"

DecIdle ==
    /\ chunks = << >>
    /\ dec_root = [kind |-> "none"]
    /\ stack = << >>
    /\ result = [ok |-> TRUE, val |-> NoDefault]
    /\ handles = << >>
    /\ dec_pc = "idle"

GcvIdle ==
    /\ gcv_src = [recs |-> << >>, marker |-> 0, stray |-> << >>, cut |-> 0,
                  bad |-> << >>, after |-> << >>]
    /\ chunk = << >>
    /\ buffer_pos = 0
    /\ variables = << >>
    /\ declared = << >>
    /\ gcv_pc = "idle"

(***************************************************************************)
(* get_chunk_variables, one loop iteration per step.                       *)
(***************************************************************************)
InitVars ==
    /\ DecIdle
    /\ RfiIdle
    /\ RcIdle
    /\ TscIdle
    /\ gcv_src \in GcvSources
    /\ chunk = StreamOf(gcv_src)
    /\ buffer_pos = 0
    /\ variables = << >>
    /\ declared = << >>
    /\ gcv_pc = "start"

\* lines 112-113: the marker byte is read and asserted
GcvReadMarker ==
    /\ gcv_pc = "start"
    /\ buffer_pos' = Len(Read(chunk, 0, 1))
    /\ gcv_pc' = IF MarkerOk(chunk) THEN "loop" ELSE "raised"
    /\ UNCHANGED << gcv_src, chunk, variables, declared >>
    /\ UNCHANGED << decVars, rfiVars, rcVars, tscVars >>

\* lines 114-120: an iteration whose try block completes
GcvAppend ==
    /\ gcv_pc = "loop"
    /\ LoopCondition(chunk, buffer_pos)
    /\ LET r == ReadVariable(chunk, buffer_pos, GcvNames)
       IN  /\ r.ok
           /\ variables' = Append(variables, r.triple)
           /\ declared' = Append(declared, r.declared)
           /\ buffer_pos' = r.pos
    /\ UNCHANGED << gcv_src, chunk, gcv_pc >>
    /\ UNCHANGED << decVars, rfiVars, rcVars, tscVars >>

\* lines 121-123: an iteration whose try block raises; the bare except
\* breaks and the list is returned
GcvBreak ==
    /\ gcv_pc = "loop"
    /\ LoopCondition(chunk, buffer_pos)
    /\ ~ReadVariable(chunk, buffer_pos, GcvNames).ok
    /\ gcv_pc' = ExceptOutcome(ReadVariable(chunk, buffer_pos, GcvNames).err)
    /\ UNCHANGED << gcv_src, chunk, buffer_pos, variables, declared >>
    /\ UNCHANGED << decVars, rfiVars, rcVars, tscVars >>

\* lines 114, 125: the while condition is false and the list is returned
GcvReturn ==
    /\ gcv_pc = "loop"
    /\ ~LoopCondition(chunk, buffer_pos)
    /\ gcv_pc' = "returned"
    /\ UNCHANGED << gcv_src, chunk, buffer_pos, variables, declared >>
    /\ UNCHANGED << decVars, rfiVars, rcVars, tscVars >>

NextVars ==
    \/ GcvReadMarker
    \/ GcvAppend
    \/ GcvBreak
    \/ GcvReturn

SpecVars == InitVars /\ [][NextVars]_vars

(***************************************************************************)
(* instantiate_type, handle, parse_chunk and from_chunk, one call or one   *)
(* loop iteration per step.  No caller on the path catches an exception,   *)
(* so a raise ends the decode.                                             *)
(***************************************************************************)
InitDecode ==
    /\ GcvIdle
    /\ RfiIdle
    /\ RcIdle
    /\ TscIdle
    /\ \/ /\ chunks \in ExportTables
          /\ \E h \in 0..(Len(chunks) + 1) :
                dec_root = [kind |-> "instantiate_type",
                            t |-> "handle:IRenderResourceBlob", value |-> PackI(h)]
       \/ /\ chunks = << >>
          /\ \E c \in LeafCalls :
                dec_root = [kind |-> "instantiate_type", t |-> c.t, value |-> c.value]
       \/ /\ chunks = << >>
          /\ \E c \in BindCalls :
                dec_root = [kind |-> "from_cr2w_kwargs", cls |-> c.cls, kwargs |-> c.kwargs]
    /\ stack = IF dec_root.kind = "instantiate_type"
               THEN << InstFrame(dec_root.t, dec_root.value, -1) >>
               ELSE << ParseFrame(dec_root.cls, << >>, dec_root.kwargs, "") >>
    /\ result = [ok |-> TRUE, val |-> NoDefault]
    /\ handles = << >>
    /\ dec_pc = "run"

Top == stack[Len(stack)]

Raise(err) ==
    /\ stack' = << >>
    /\ result' = [ok |-> FALSE, err |-> err]
    /\ dec_pc' = "done"

Return(v) ==
    /\ stack' = StackAfterReturn(stack, v)
    /\ IF stack' = << >>
       THEN result' = [ok |-> TRUE, val |-> v] /\ dec_pc' = "done"
       ELSE UNCHANGED << result, dec_pc >>

\* a call that would take the stack beyond the recursion limit
TooDeep(pushed) == Len(stack) + pushed > RecursionLimit

Running(fn) == dec_pc = "run" /\ stack # << >> /\ Top.fn = fn

\* lines 140, 106: lookup_type raises for a type name that is not registered
InstantiateUnregistered ==
    /\ Running("instantiate_type")
    /\ ~lookup_type(Top.t).ok
    /\ Raise(lookup_type(Top.t).err)
    /\ UNCHANGED << chunks, dec_root, handles >>
    /\ UNCHANGED << gcvVars, rfiVars, rcVars, tscVars >>

\* lines 142-146, 153-155: Name, uint, bool and the bytes subclasses
InstantiateValue ==
    /\ Running("instantiate_type")
    /\ KindOf(Top.t) \in {"Name", "uint", "bool", "bytes"}
    /\ LET r == InstantiateLeaf(Top.t, Top.value, DecNames)
       IN  IF r.ok THEN Return(r.val) ELSE Raise(r.err)
    /\ UNCHANGED << chunks, dec_root, handles >>
    /\ UNCHANGED << gcvVars, rfiVars, rcVars, tscVars >>

\* lines 149-150, 91-92, 130: a Chunk subclass; from_chunk calls
\* parse_chunk, which splits the value with get_chunk_variables
InstantiateChunk ==
    /\ Running("instantiate_type")
    /\ KindOf(Top.t) = "schema"
    /\ LET v == get_chunk_variables(Top.value, DecNames)
       IN  IF TooDeep(1) THEN Raise("RecursionError")
           ELSE IF ~v.ok THEN Raise(v.err)
           ELSE /\ stack' = Append(stack, ParseFrame(Top.t, v.variables, << >>, ""))
                /\ UNCHANGED << result, dec_pc >>
    /\ UNCHANGED << chunks, dec_root, handles >>
    /\ UNCHANGED << gcvVars, rfiVars, rcVars, tscVars >>

\* lines 151-152, 166-168: a handle; handle() indexes chunks and calls
\* instantiate_type with the row's class name and data
InstantiateHandle ==
    /\ Running("instantiate_type")
    /\ KindOf(Top.t) = "handle"
    /\ LET handle_idx == HandleRow(Top.value)
           at == PyIndex(chunks, handle_idx)
       IN  IF TooDeep(1) THEN
                Raise("RecursionError") /\ UNCHANGED handles
           ELSE IF ~at.ok THEN
                /\ Raise(at.err)
                /\ handles' = Append(handles,
                        [wire |-> uint(Top.value), row |-> -1, t |-> "", data |-> << >>,
                         err |-> at.err])
           ELSE IF TooDeep(2) THEN
                /\ Raise("RecursionError")
                /\ handles' = Append(handles,
                        [wire |-> uint(Top.value), row |-> at.at - 1,
                         t |-> chunks[at.at].type, data |-> chunks[at.at].data,
                         err |-> "RecursionError"])
           ELSE /\ stack' = stack \o << HandleFrame(Top.value),
                                        InstFrame(chunks[at.at].type, chunks[at.at].data,
                                                  at.at - 1) >>
                /\ handles' = Append(handles,
                        [wire |-> uint(Top.value), row |-> at.at - 1,
                         t |-> chunks[at.at].type, data |-> chunks[at.at].data,
                         err |-> ""])
                /\ UNCHANGED << result, dec_pc >>
    /\ UNCHANGED << chunks, dec_root >>
    /\ UNCHANGED << gcvVars, rfiVars, rcVars, tscVars >>

\* lines 133-134: the next variable of parse_chunk's loop is instantiated
ParseChunkNext ==
    /\ Running("parse_chunk")
    /\ Top.todo # << >>
    /\ LET var == Head(Top.todo)
       IN  IF TooDeep(1) THEN Raise("RecursionError")
           ELSE /\ stack' = Append(
                        [stack EXCEPT ![Len(stack)].todo = Tail(@),
                                      ![Len(stack)].key = var[1]],
                        InstFrame(var[2], var[3], -1))
                /\ UNCHANGED << result, dec_pc >>
    /\ UNCHANGED << chunks, dec_root, handles >>
    /\ UNCHANGED << gcvVars, rfiVars, rcVars, tscVars >>

\* lines 136, 93, 84-88: parse_chunk returns the dict and from_chunk binds
\* it with from_cr2w_kwargs
ParseChunkBind ==
    /\ Running("parse_chunk")
    /\ Top.todo = << >>
    /\ LET r == from_cr2w_kwargs(Top.t, Top.kwargs)
       IN  IF r.ok THEN Return(r.val) ELSE Raise(r.err)
    /\ UNCHANGED << chunks, dec_root, handles >>
    /\ UNCHANGED << gcvVars, rfiVars, rcVars, tscVars >>

NextDecode ==
    \/ InstantiateUnregistered
    \/ InstantiateValue
    \/ InstantiateChunk
    \/ InstantiateHandle
    \/ ParseChunkNext
    \/ ParseChunkBind

SpecDecode == InitDecode /\ [][NextDecode]_vars

(***************************************************************************)
(* read_file_info, one read (or one loop iteration) per step.              *)
(***************************************************************************)
Init ==
    /\ GcvIdle
    /\ DecIdle
    /\ RcIdle
    /\ TscIdle
    /\ file_src \in FileSources
    /\ file = FileOf(file_src)
    /\ fp_pos = 0
    /\ version = 0
    /\ table_headers = << >>
    /\ string_dict = << >>
    /\ cur_string = NoString
    /\ table_reads = << >>
    /\ file_info = [ok |-> TRUE, val |-> NoDefault]
    /\ empty_reads = 0
    /\ rfi_pc = "magic"

RfiRaise(err) ==
    /\ file_info' = [ok |-> FALSE, err |-> err]
    /\ rfi_pc' = "raised"

\* lines 114-115
RfiReadMagic ==
    /\ rfi_pc = "magic"
    /\ LET magic == Read(file, fp_pos, 4)
       IN  /\ fp_pos' = fp_pos + Len(magic)
           /\ IF magic = Magic
              THEN rfi_pc' = "header" /\ UNCHANGED file_info
              ELSE RfiRaise("AssertionError")
    /\ UNCHANGED << file_src, file, version, table_headers, string_dict, cur_string,
                    table_reads >>
    /\ UNCHANGED empty_reads
    /\ UNCHANGED << gcvVars, decVars, rcVars, tscVars >>

\* lines 118-121
RfiReadHeader ==
    /\ rfi_pc = "header"
    /\ LET raw == Read(file, fp_pos, CR2WFileHeader_size)
           v == FromBytesLE(SubSeq(raw, 1, Min(4, Len(raw))))
       IN  /\ fp_pos' = fp_pos + Len(raw)
           /\ IF Len(raw) # CR2WFileHeader_size
              THEN RfiRaise("struct.error") /\ UNCHANGED version
              ELSE /\ version' = v
                   /\ IF ~VersionSupported(v)
                      THEN RfiRaise("ValueError")
                      ELSE rfi_pc' = "directory" /\ UNCHANGED file_info
    /\ UNCHANGED << file_src, file, table_headers, string_dict, cur_string, table_reads >>
    /\ UNCHANGED empty_reads
    /\ UNCHANGED << gcvVars, decVars, rcVars, tscVars >>

\* line 124
RfiReadDirectory ==
    /\ rfi_pc = "directory"
    /\ LET r == ReadTableHeaders(file, fp_pos, NumTableHeaders, << >>)
       IN  /\ fp_pos' = r.pos
           /\ IF r.ok
              THEN /\ table_headers' = r.val
                   /\ rfi_pc' = "strings_offset"
                   /\ UNCHANGED file_info
              ELSE RfiRaise(r.err) /\ UNCHANGED table_headers
    /\ UNCHANGED << file_src, file, version, string_dict, cur_string, table_reads >>
    /\ UNCHANGED empty_reads
    /\ UNCHANGED << gcvVars, decVars, rcVars, tscVars >>

\* line 127
RfiAssertStringsOffset ==
    /\ rfi_pc = "strings_offset"
    /\ IF fp_pos = table_headers[1].offset
       THEN /\ rfi_pc' = "strings"
            /\ table_reads' = Append(table_reads,
                    [table |-> 0, pos |-> fp_pos, block |-> << >>, records |-> << >>])
            /\ UNCHANGED file_info
       ELSE RfiRaise("AssertionError") /\ UNCHANGED table_reads
    /\ UNCHANGED << file_src, file, fp_pos, version, table_headers, string_dict,
                    cur_string >>
    /\ UNCHANGED empty_reads
    /\ UNCHANGED << gcvVars, decVars, rcVars, tscVars >>

\* lines 130-132: the outer while; a new string begins or the loop ends
RfiStringLoop ==
    /\ rfi_pc = "strings"
    /\ IF fp_pos < table_headers[1].offset + table_headers[1].item_count
       THEN /\ cur_string' = [pos |-> fp_pos - table_headers[1].offset, string |-> << >>]
            /\ rfi_pc' = "char"
       ELSE /\ rfi_pc' = "tables"
            /\ UNCHANGED cur_string
    /\ UNCHANGED << file_src, file, fp_pos, version, table_headers, string_dict,
                    table_reads, file_info >>
    /\ UNCHANGED empty_reads
    /\ UNCHANGED << gcvVars, decVars, rcVars, tscVars >>

\* lines 133-140: one pass of the inner while True; at the end of the file
\* fp.read(1) returns b"", which is not b"\0" and adds nothing to the string
RfiReadChar ==
    /\ rfi_pc = "char"
    /\ empty_reads < MaxEmptyReads
    /\ LET char == Read(file, fp_pos, 1)
       IN  /\ fp_pos' = fp_pos + Len(char)
           /\ empty_reads' = IF char = << >> THEN empty_reads + 1 ELSE empty_reads
           /\ IF char = << 0 >>
              THEN /\ string_dict' = DictSet(string_dict, cur_string.pos,
                                        IF cur_string.string = << >>
                                        THEN << 78, 111, 110, 101 >>
                                        ELSE cur_string.string)
                   /\ cur_string' = NoString
                   /\ rfi_pc' = "strings"
              ELSE /\ cur_string' = [cur_string EXCEPT !.string = @ \o char]
                   /\ UNCHANGED << string_dict, rfi_pc >>
    /\ UNCHANGED << file_src, file, version, table_headers, table_reads, file_info >>
    /\ UNCHANGED << gcvVars, decVars, rcVars, tscVars >>

\* the table read next: the one under table_headers[NextTable]
NextTable == Len(table_reads)

\* lines 143-158: one list(read_tables(...)) call
RfiReadTable ==
    /\ rfi_pc = "tables"
    /\ NextTable \in FixedTables
    /\ LET i == NextTable
           r == read_tables(file, fp_pos, StructSize(i), table_headers[i + 1])
       IN  /\ fp_pos' = r.pos
           /\ table_reads' = Append(table_reads,
                    [table |-> i, pos |-> fp_pos, block |-> r.block, records |-> r.records])
           /\ IF ~r.ok THEN RfiRaise(r.err)
              ELSE /\ rfi_pc' = IF i = 6 THEN "finish" ELSE "tables"
                   /\ UNCHANGED file_info
    /\ UNCHANGED << file_src, file, version, table_headers, string_dict, cur_string >>
    /\ UNCHANGED empty_reads
    /\ UNCHANGED << gcvVars, decVars, rcVars, tscVars >>

\* the records read under table_headers[i]
RecordsOf(i) == table_reads[i + 1].records

\* lines 160-185
RfiFinish ==
    /\ rfi_pc = "finish"
    /\ LET names == NamesList(RecordsOf(1), string_dict)
           imports == IF names.ok
                      THEN ImportsList(RecordsOf(2), names.val, string_dict, << >>)
                      ELSE names
       IN  IF ~names.ok THEN RfiRaise(names.err)
           ELSE IF ~imports.ok THEN RfiRaise(imports.err)
           ELSE /\ file_info' =
                      [ok |-> TRUE,
                       val |-> [tag |-> "CR2WFileInfo",
                                version |-> version,
                                string_dict |-> string_dict,
                                tables |-> [i \in FixedTables |-> RecordsOf(i)],
                                imports |-> imports.val]]
                /\ rfi_pc' = "returned"
    /\ UNCHANGED << file_src, file, fp_pos, version, table_headers, string_dict,
                    cur_string, table_reads >>
    /\ UNCHANGED empty_reads
    /\ UNCHANGED << gcvVars, decVars, rcVars, tscVars >>

Next ==
    \/ RfiReadMagic
    \/ RfiReadHeader
    \/ RfiReadDirectory
    \/ RfiAssertStringsOffset
    \/ RfiStringLoop
    \/ RfiReadChar
    \/ RfiReadTable
    \/ RfiFinish

Spec == Init /\ [][Next]_vars

(***************************************************************************)
(* read_chunk called for every row of the export table, in table order,    *)
(* on one stream; an exception ends the reading.                           *)
(***************************************************************************)
InitChunks ==
    /\ GcvIdle
    /\ DecIdle
    /\ RfiIdle
    /\ TscIdle
    /\ rc_file \in ChunkFiles
    /\ rc_pos = ChunkStart
    /\ \E t \in ExportInfoTables :
          rc_info = [name_info |-> ChunkNameInfo, string_dict |-> ChunkStringDict,
                     export_info |-> t]
    /\ rc_calls = << >>
    /\ rc_pc = "reading"

\* one call read_chunk(fp, chunk_index, file_info), chunk_index being the
\* number of calls made before
ReadChunk ==
    /\ rc_pc = "reading"
    /\ Len(rc_calls) < Len(rc_info.export_info)
    /\ LET chunk_index == Len(rc_calls)
           r == read_chunk(rc_file, rc_pos, chunk_index, rc_info)
       IN  /\ rc_calls' = Append(rc_calls,
                    [chunk_index |-> chunk_index, entry |-> rc_pos, exit |-> r.pos,
                     ok |-> r.ok, err |-> IF r.ok THEN "" ELSE r.err,
                     data |-> IF r.ok THEN r.data ELSE << >>,
                     warned |-> r.warned])
           /\ rc_pos' = r.pos
           /\ rc_pc' = IF r.ok THEN "reading" ELSE "raised"
    /\ UNCHANGED << rc_file, rc_info >>
    /\ UNCHANGED << gcvVars, decVars, rfiVars, tscVars >>

\* every row has been read
ChunksRead ==
    /\ rc_pc = "reading"
    /\ Len(rc_calls) = Len(rc_info.export_info)
    /\ rc_pc' = "done"
    /\ UNCHANGED << rc_file, rc_pos, rc_info, rc_calls >>
    /\ UNCHANGED << gcvVars, decVars, rfiVars, tscVars >>

NextChunks ==
    \/ ReadChunk
    \/ ChunksRead

SpecChunks == InitChunks /\ [][NextChunks]_vars

(***************************************************************************)
(* to_snake_case applied to one string.                                    *)
(***************************************************************************)
\* the letters the strings are made of: one lowercase, two uppercase
SnakeAlphabet == { "a", "B", "C" }

RECURSIVE Words(_)
Words(n) ==
    IF n = 0 THEN { "" }
    ELSE LET shorter == Words(n - 1)
         IN  shorter \cup { w \o c : w \in shorter, c \in SnakeAlphabet }

\* the strings over the alphabet, and wire property names of the schemas
SnakeInputs ==
    Words(MaxNameLen)
        \cup { "Width", "width", "cookingPlatform", "renderResourceBlobPC",
               "HTTPServer", "mipCount", "IsGamma" }

InitSnake ==
    /\ GcvIdle
    /\ DecIdle
    /\ RfiIdle
    /\ RcIdle
    /\ tsc_value \in SnakeInputs
    /\ tsc_result = [ok |-> TRUE, val |-> ""]
    /\ tsc_pc = "called"

ToSnakeCase ==
    /\ tsc_pc = "called"
    /\ tsc_result' = to_snake_case(tsc_value)
    /\ tsc_pc' = "done"
    /\ UNCHANGED tsc_value
    /\ UNCHANGED << gcvVars, decVars, rfiVars, rcVars >>

NextSnake == ToSnakeCase

SpecSnake == InitSnake /\ [][NextSnake]_vars

(***************************************************************************)
(* Properties of read_file_info.                                           *)
(***************************************************************************)
\* C1: every table of 0..6 that read_file_info has begun to read was begun
\* with the cursor at the offset its directory entry records.
C1_TableReadAtDirectoryOffset ==
    \A k \in DOMAIN table_reads :
        table_reads[k].pos = table_headers[table_reads[k].table + 1].offset

\* the read of a fixed table whose block does not have the checksum of its
\* directory entry
ChecksumMismatch(r) ==
    /\ r.table \in FixedTables
    /\ crc32(r.block) # table_headers[r.table + 1].crc32

\* C2: when the CRC32 of the raw block read for one of the six fixed tables
\* differs from the checksum of its directory entry, read_file_info raises
\* AssertionError at that table, returns no file info, reads no further
\* table and has unpacked no record of that table.
C2_ChecksumMismatchFails ==
    \A k \in DOMAIN table_reads :
        ChecksumMismatch(table_reads[k]) =>
            /\ rfi_pc = "raised"
            /\ file_info = [ok |-> FALSE, err |-> "AssertionError"]
            /\ table_reads[k].records = << >>
            /\ k = Len(table_reads)

\* a table of at least one record, read in full, one byte of which was
\* changed after the checksum of the directory was computed
C2_Witness ==
    /\ rfi_pc = "raised"
    /\ file_src.fault.kind = "byte"
    /\ \E k \in DOMAIN table_reads :
          LET r == table_reads[k] IN
          /\ ChecksumMismatch(r)
          /\ table_headers[r.table + 1].item_count >= 1
          /\ Len(r.block) = StructSize(r.table) * table_headers[r.table + 1].item_count

\* the version field of the header the file holds, when the file holds the
\* magic and a whole header
HeaderPresent == Len(file) >= Len(Magic) + CR2WFileHeader_size /\ SubSeq(file, 1, 4) = Magic

HeaderVersion == FromBytesLE(SubSeq(file, 5, 8))

\* C12: a header whose version is outside 163..195 makes read_file_info
\* raise ValueError once the header is read, with no table directory entry
\* read; a version within 163..195 never makes it raise ValueError.
C12_VersionRange ==
    (HeaderPresent /\ rfi_pc \notin {"magic", "header"}) =>
        IF HeaderVersion < 163 \/ HeaderVersion > 195
        THEN /\ rfi_pc = "raised"
             /\ file_info = [ok |-> FALSE, err |-> "ValueError"]
             /\ table_headers = << >>
             /\ table_reads = << >>
             /\ fp_pos = Len(Magic) + CR2WFileHeader_size
        ELSE /\ file_info # [ok |-> FALSE, err |-> "ValueError"]
             /\ version = HeaderVersion

\* a file of version 196, rejected
C12_Witness ==
    /\ HeaderPresent
    /\ HeaderVersion = 196
    /\ rfi_pc = "raised"
    /\ file_info = [ok |-> FALSE, err |-> "ValueError"]

\* C15: the string loop of read_file_info stops when the input ends: it
\* never reads at the end of the file a second time.  (A read that returns
\* nothing leaves the position, the string and the dictionary as they were,
\* so a loop that reads again after it reads again without end.)
C15_StringLoopStops == empty_reads <= 1

(***************************************************************************)
(* Properties of get_chunk_variables.                                      *)
(***************************************************************************)
\* the stream is the marker byte followed by well-formed records only
GcvWellFormed ==
    gcv_src.marker = 0 /\ gcv_src.stray = << >> /\ gcv_src.cut = 0 /\ gcv_src.bad = << >>

\* the stream is a well-formed one followed by 1, 2 or 3 stray bytes
GcvStrayTail ==
    gcv_src.marker = 0 /\ gcv_src.cut = 0 /\ gcv_src.bad = << >> /\ Len(gcv_src.stray) \in 1..3

ExpectedTriples == [i \in 1..Len(gcv_src.recs) |-> TripleOf(gcv_src.recs[i])]

\* C6: on the marker byte followed by N well-formed records,
\* get_chunk_variables does not raise and returns exactly the N triples
\* (name, type, value bytes) of the records, in input order.
C6_RoundTrip ==
    GcvWellFormed =>
        /\ gcv_pc # "raised"
        /\ gcv_pc = "returned" => variables = ExpectedTriples

C6_Witness ==
    /\ GcvWellFormed
    /\ gcv_pc = "returned"
    /\ Len(gcv_src.recs) = 2
    /\ gcv_src.recs[1] # gcv_src.recs[2]
    /\ Len(variables) = 2

\* C7: every triple get_chunk_variables returns holds a value of exactly
\* L - 4 bytes for the length field L it was read with; a property whose
\* value is cut short by the end of the chunk is not returned.
C7_TruncatedValueDropped ==
    \A i \in DOMAIN variables : Len(variables[i][3]) = declared[i] - 4

\* C8: 1, 2 or 3 stray bytes after a well-formed stream of N records never
\* make get_chunk_variables raise, and the result is still exactly the N
\* triples of the records, in order.
C8_StrayBytesIgnored ==
    GcvStrayTail =>
        /\ gcv_pc # "raised"
        /\ gcv_pc = "returned" => variables = ExpectedTriples

\* three stray bytes that begin with a valid name ordinal, after a record
C8_Witness ==
    /\ GcvStrayTail
    /\ gcv_pc = "returned"
    /\ Len(gcv_src.stray) = 3
    /\ FromBytesLE(SubSeq(gcv_src.stray, 1, 2)) \in ValidOrds
    /\ Len(gcv_src.recs) >= 1
    /\ Len(variables) = Len(gcv_src.recs)

\* C16: get_chunk_variables raises only when the first byte of the chunk is
\* not the marker; a property whose name or type ordinal read_c_name refuses
\* ends the decoding, and the triples of the records before it are returned
\* as they are, without that property and without any after it.
C16_FailuresNotPropagated ==
    /\ gcv_pc = "raised" => (chunk = << >> \/ chunk[1] # 0)
    /\ (gcv_src.bad # << >> /\ gcv_pc = "returned") => variables = ExpectedTriples

\* a record with an ordinal beyond the names list, between two well-formed
\* records
C16_Witness ==
    /\ gcv_pc = "returned"
    /\ gcv_src.bad # << >>
    /\ gcv_src.bad[1].name = Len(GcvNames)
    /\ gcv_src.after # << >>
    /\ Len(gcv_src.recs) >= 1
    /\ Len(variables) = Len(gcv_src.recs)

(***************************************************************************)
(* Properties of handle, instantiate_type and the binding of dataclasses.  *)
(***************************************************************************)
\* C3: resolving a handle whose wire index is 0 never reads a row of the
\* export table (the row recorded for a handle is -1 when none was read).
C3_NullHandleUnset ==
    \A i \in DOMAIN handles : handles[i].wire = 0 => handles[i].row = -1

\* C4: a handle whose wire index h is in 1..n makes handle() call
\* instantiate_type with the data and the class name of export h-1, and a
\* handle with h = n + 1 raises IndexError, after which nothing is decoded.
C4_HandleResolvesExport ==
    /\ \A i \in DOMAIN handles :
          LET e == handles[i] IN
          /\ (1 <= e.wire /\ e.wire <= Len(chunks)) =>
                /\ e.row = e.wire - 1
                /\ e.t = chunks[e.wire].type
                /\ e.data = chunks[e.wire].data
                /\ e.err # "IndexError"
          /\ e.wire = Len(chunks) + 1 =>
                /\ e.row = -1
                /\ e.err = "IndexError"
                /\ i = Len(handles)
                /\ dec_pc = "done"
                /\ stack = << >>
                /\ result = [ok |-> FALSE, err |-> "IndexError"]
    /\ \A k \in DOMAIN stack :
          LET h == uint(stack[k].value) IN
          (stack[k].fn = "handle" /\ 1 <= h /\ h <= Len(chunks)) =>
                /\ k + 1 <= Len(stack)
                /\ stack[k + 1] = InstFrame(chunks[h].type, chunks[h].data, h - 1)

\* a decode that resolved the last row of a table of two rows and then ran
\* into a handle one beyond it
C4_Witness ==
    /\ dec_pc = "done"
    /\ Len(chunks) = 2
    /\ \E i, j \in DOMAIN handles :
          /\ handles[i].wire = Len(chunks) /\ handles[i].err = ""
          /\ handles[j].wire = Len(chunks) + 1 /\ handles[j].err = "IndexError"

\* C5: in an export table whose handles are all set (no wire index 0), an
\* export that is being decoded is never entered again, a decode that ends
\* with a value has decoded each export at most once, and no decode ends by
\* running into the interpreter's recursion limit.
C5_DecodeBounded ==
    (\A i \in DOMAIN handles : handles[i].wire # 0) =>
        /\ \A i, j \in DOMAIN stack :
              (i < j /\ stack[i].fn = "instantiate_type" /\ stack[i].row # -1)
                  => stack[j].row # stack[i].row
        /\ (dec_pc = "done" /\ result.ok) =>
              \A i, j \in DOMAIN handles : i < j => handles[i].row # handles[j].row
        /\ (dec_pc = "done" /\ ~result.ok) => result.err # "RecursionError"

\* C9: CBitmapTexture.from_cr2w_kwargs on a mapping that holds
\* cookingPlatform, width, height and renderTextureResource only returns an
\* instance with the four values given, depth = 1,
\* hist_bias_mul_coef = (1, 1, 1) and hist_bias_add_coef = (0, 0, 0).
C9_RequiredFieldsBind ==
    ( /\ dec_pc = "done"
      /\ dec_root.kind = "from_cr2w_kwargs"
      /\ dec_root.cls = "CBitmapTexture"
      /\ DictKeys(dec_root.kwargs) =
            {"cookingPlatform", "width", "height", "renderTextureResource"} )
    => /\ result.ok
       /\ result.val.tag = "obj"
       /\ result.val.cls = "CBitmapTexture"
       /\ result.val.fields["cooking_platform"] = DictGet(dec_root.kwargs, "cookingPlatform")
       /\ result.val.fields["width"] = DictGet(dec_root.kwargs, "width")
       /\ result.val.fields["height"] = DictGet(dec_root.kwargs, "height")
       /\ result.val.fields["render_texture_resource"]
              = DictGet(dec_root.kwargs, "renderTextureResource")
       /\ result.val.fields["depth"] = IntV(1)
       /\ result.val.fields["hist_bias_mul_coef"] = TupleV(<< 1, 1, 1 >>)
       /\ result.val.fields["hist_bias_add_coef"] = TupleV(<< 0, 0, 0 >>)

\* C10: instantiate_type of a Bool whose value is one byte returns false
\* for the byte 0x00 and true for any other byte.
C10_BoolDecodesByte ==
    ( /\ dec_pc = "done"
      /\ dec_root.kind = "instantiate_type"
      /\ dec_root.t = "Bool"
      /\ Len(dec_root.value) = 1 )
    => /\ result.ok
       /\ result.val = BoolV(dec_root.value[1] # 0)

(***************************************************************************)
(* Properties of read_chunk.                                               *)
(***************************************************************************)
\* the export a call was made for
ExportOf(c) == rc_info.export_info[c.chunk_index + 1]

\* the first export starts at the position the stream has, and each later
\* export starts where the one before it is declared to end
ExportsChained ==
    \A k \in DOMAIN rc_info.export_info :
        rc_info.export_info[k].data_offset =
            IF k = 1 THEN ChunkStart
            ELSE rc_info.export_info[k - 1].data_offset
                     + rc_info.export_info[k - 1].data_size

\* the class name ordinal of every export is within the names list
ClassNamesResolve ==
    \A k \in DOMAIN rc_info.export_info :
        rc_info.export_info[k].class_name < Len(rc_info.name_info)

\* a call made with the stream elsewhere than at data_offset fails, and a
\* call that returns leaves the stream at data_offset + data_size, with a
\* warning when fewer than data_size bytes were read
ReadChunkPositions ==
    \A i \in DOMAIN rc_calls :
        LET c == rc_calls[i] IN
        /\ c.entry # ExportOf(c).data_offset => ~c.ok
        /\ c.ok =>
              /\ c.exit = ExportOf(c).data_offset + ExportOf(c).data_size
              /\ Len(c.data) < ExportOf(c).data_size => c.warned
              /\ i = Len(rc_calls) => rc_pos = c.exit
        /\ ~c.ok => (rc_pc = "raised" /\ i = Len(rc_calls))

\* C11: read_chunk fails when called with the stream elsewhere
\* than at data_offset, leaves the stream at data_offset + data_size
\* whenever it returns, and the chunks read in export-table order all
\* succeed exactly when the exports are chained.
C11_ChunksSucceedIffChained ==
    /\ ReadChunkPositions
    /\ rc_pc = "done" => ExportsChained
    /\ rc_pc = "raised" => ~ExportsChained

\* C11, with the class names: the same, but the chunks read in export-table order all
\* succeed exactly when the exports are chained and the class name ordinal
\* of every export is within the names list.
C11_ChunksSucceedIffChainedAndNamed ==
    /\ ReadChunkPositions
    /\ rc_pc = "done" => (ExportsChained /\ ClassNamesResolve)
    /\ rc_pc = "raised" => ~(ExportsChained /\ ClassNamesResolve)

\* two chained exports read to the end on a stream that ends inside the
\* first one: both calls warn and seek
C11_Witness ==
    /\ rc_pc = "done"
    /\ Len(rc_calls) = 2
    /\ rc_calls[1].warned
    /\ Len(rc_calls[1].data) < ExportOf(rc_calls[1]).data_size
    /\ rc_calls[2].entry > Len(rc_file)
    /\ rc_calls[2].ok

\* a wire type name of the form array:X
IsArrayType(t) == Len(t) > 6 /\ SubSeq(t, 1, 6) = "array:"

\* C13: instantiate_type of a wire type array:X whose element schema is not
\* otherwise recognised returns an opaque value that holds the value bytes
\* unchanged and is tagged with the wire type name; it raises nothing.
C13_ArrayOpaque ==
    ( /\ dec_pc = "done"
      /\ dec_root.kind = "instantiate_type"
      /\ IsArrayType(dec_root.t) )
    => /\ result.ok
       /\ result.val = BytesV(dec_root.t, dec_root.value)

(***************************************************************************)
(* Properties of to_snake_case.                                            *)
(***************************************************************************)
\* C14: to_snake_case returns a string, and the string it returns holds no
\* uppercase letter.
C14_NoUppercase ==
    tsc_pc = "done" =>
        /\ tsc_result.ok
        /\ CharsOf(tsc_result.val) \cap Lu = {}

====
